---- MODULE Spec2Model ----
(***************************************************************************)
(* The response cache of mcp-trustedadvisor-server: ResponseCache (a Map   *)
(* of CacheEntry with TTL expiry and LRU eviction), its cleanup timer and  *)
(* the withCache memoizer, as a state machine.                             *)
(*                                                                         *)
(* A JavaScript Map iterates in insertion order, so the cache is a         *)
(* sequence of entries with distinct keys.  An optional argument is <<>>   *)
(* (undefined) or <<v>>.  Date.now() is the variable now, advanced by Tick.*)
(* registry holds the stores of CacheInstances and aws what the Trusted    *)
(* Advisor service holds; the resource handlers work on these two.         *)
(***************************************************************************)
EXTENDS Integers, Sequences, FiniteSets, TLC

VARIABLES options, cache, cleanupTimer, now, calls, last, script, registry, aws

vars == <<options, cache, cleanupTimer, now, calls, last, script, registry, aws>>

----------------------------------------------------------------------------
(* Bounds of the model *)

MaxTime == 2
MaxAccessCount == 2
NumCalls == 2

(* Program constants: the constructor's defaults *)
DefaultTtl == 300000
DefaultMaxSize == 100

----------------------------------------------------------------------------
(* Values *)

Undefined == "undefined"

\* Results a handler can produce; "" is a value JavaScript treats as falsy.
Values == {"", "r1"}

Errors == {"Error: e1"}

\* JavaScript truthiness of a cached value, as tested by `if (cached)`.
Truthy(v) == v # Undefined /\ v # ""

Calls == 1..NumCalls

----------------------------------------------------------------------------
(* generateKey: keys sorted, serialized, hashed.  params is the sequence   *)
(* of <<name, value>> pairs of the object in insertion order.  The sha256  *)
(* prefix is modelled by the canonical serialization it is computed from   *)
(* (hash collisions are not modelled).                                     *)

\* Code-unit order of the property names used, as Array.prototype.sort compares them.
NameOrder(name) ==
    CASE name = "a" -> 1
      [] name = "b" -> 2
      [] name = "key" -> 3
      [] OTHER -> 4

RECURSIVE InsertSorted(_, _)
InsertSorted(pair, s) ==
    IF s = <<>> THEN <<pair>>
    ELSE IF NameOrder(pair[1]) <= NameOrder(Head(s)[1]) THEN <<pair>> \o s
    ELSE <<Head(s)>> \o InsertSorted(pair, Tail(s))

RECURSIVE SortedParams(_)
SortedParams(params) ==
    IF params = <<>> THEN <<>>
    ELSE InsertSorted(Head(params), SortedParams(Tail(params)))

\* generateKey that serializes the params in their insertion order.
generateKey_Unsorted(operation, params) ==
    [operation |-> operation, hash |-> <<operation, params>>]

generateKey(operation, params) ==
    [operation |-> operation, hash |-> <<operation, SortedParams(params)>>]

NoKey == [operation |-> "", hash |-> <<>>]

----------------------------------------------------------------------------
(* Map<string, CacheEntry> *)

MapIndex(c, key) ==
    IF \E i \in 1..Len(c) : c[i].key = key
    THEN CHOOSE i \in 1..Len(c) : c[i].key = key
    ELSE 0

MapHas(c, key) == MapIndex(c, key) # 0

MapGet(c, key) == c[MapIndex(c, key)]

MapDelete(c, key) == SelectSeq(c, LAMBDA e : e.key # key)

\* Map.set keeps the position of an existing key and appends a new one.
MapSet(c, key, entry) ==
    IF MapHas(c, key)
    THEN [c EXCEPT ![MapIndex(c, key)] = entry]
    ELSE Append(c, entry)

\* Map.keys(), as a set.
StoredKeys(c) == { c[i].key : i \in 1..Len(c) }

\* The entries of a Map other than the one under key, as a set.
Others(c, key) == { c[i] : i \in { j \in 1..Len(c) : c[j].key # key } }

----------------------------------------------------------------------------
(* ResponseCache methods, as functions of the state they read *)

\* constructor: defaults for the options left undefined; nothing is validated.
Constructor(args) ==
    LET ttl == IF args.ttl = <<>> THEN DefaultTtl ELSE args.ttl[1]
        maxSize == IF args.maxSize = <<>> THEN DefaultMaxSize ELSE args.maxSize[1]
        autoCleanup == IF args.autoCleanup = <<>> THEN TRUE ELSE args.autoCleanup[1]
    IN  [options |-> [ttl |-> ttl, maxSize |-> maxSize, autoCleanup |-> autoCleanup],
         cleanupTimer |-> autoCleanup,
         threw |-> FALSE]

\* get without the expiry check.
get_NoExpiryCheck(c, key, t) ==
    LET i == MapIndex(c, key) IN
    IF i = 0 THEN [cache |-> c, ret |-> Undefined]
    ELSE [cache |-> [c EXCEPT ![i].accessCount = @ + 1, ![i].lastAccessed = t],
          ret |-> c[i].data]

\* get that slides the entry's timestamp forward on every hit.
get_SlidingTtl(c, key, t) ==
    LET i == MapIndex(c, key) IN
    IF i = 0 THEN [cache |-> c, ret |-> Undefined]
    ELSE IF t - c[i].timestamp > c[i].ttl
         THEN [cache |-> MapDelete(c, key), ret |-> Undefined]
         ELSE [cache |-> [c EXCEPT ![i].accessCount = @ + 1,
                                   ![i].lastAccessed = t,
                                   ![i].timestamp = t],
               ret |-> c[i].data]

\* get that refreshes lastAccessed and leaves accessCount alone.
get_NoCount(c, key, t) ==
    LET i == MapIndex(c, key) IN
    IF i = 0 THEN [cache |-> c, ret |-> Undefined]
    ELSE IF t - c[i].timestamp > c[i].ttl
         THEN [cache |-> MapDelete(c, key), ret |-> Undefined]
         ELSE [cache |-> [c EXCEPT ![i].lastAccessed = t], ret |-> c[i].data]

get(c, key, t) ==
    LET i == MapIndex(c, key) IN
    IF i = 0 THEN [cache |-> c, ret |-> Undefined]
    ELSE IF t - c[i].timestamp > c[i].ttl
         THEN [cache |-> MapDelete(c, key), ret |-> Undefined]
         ELSE [cache |-> [c EXCEPT ![i].accessCount = @ + 1,
                                   ![i].lastAccessed = t],
               ret |-> c[i].data]

\* The scan with <= for <: among entries that tie, the last one is kept as lruKey.
RECURSIVE LruScan_LastOfTies(_, _, _)
LruScan_LastOfTies(c, i, best) ==
    IF i > Len(c) THEN best
    ELSE LruScan_LastOfTies(c, i + 1,
                 IF best = 0 \/ c[i].lastAccessed <= c[best].lastAccessed
                 THEN i ELSE best)

\* The scan of evictLeastRecentlyUsed: best = 0 stands for lruTime = Infinity.
RECURSIVE LruScan(_, _, _)
LruScan(c, i, best) ==
    IF i > Len(c) THEN best
    ELSE LruScan(c, i + 1,
                 IF best = 0 \/ c[i].lastAccessed < c[best].lastAccessed
                 THEN i ELSE best)

\* Eviction of the entry inserted first, whatever was read since.
evictLeastRecentlyUsed_Fifo(c) ==
    IF Len(c) = 0 THEN c
    ELSE MapDelete(c, c[1].key)

\* Keys are non-empty strings, so `if (lruKey)` holds whenever an entry was scanned.
evictLeastRecentlyUsed(c) ==
    IF Len(c) = 0 THEN c
    ELSE MapDelete(c, c[LruScan(c, 1, 0)].key)

\* set that evicts only once the store is already over its cap.
set_EvictsLate(c, opts, key, data, customTtl, t) ==
    LET ttl == IF customTtl # <<>> /\ customTtl[1] # 0 THEN customTtl[1] ELSE opts.ttl
        entry == [key |-> key, data |-> data, timestamp |-> t, ttl |-> ttl,
                  accessCount |-> 1, lastAccessed |-> t]
        c1 == IF Len(c) > opts.maxSize THEN evictLeastRecentlyUsed(c) ELSE c
    IN  MapSet(c1, key, entry)

\* set that inserts first and then trims the newest entry when over the cap.
set_InsertThenTrim(c, opts, key, data, customTtl, t) ==
    LET ttl == IF customTtl # <<>> /\ customTtl[1] # 0 THEN customTtl[1] ELSE opts.ttl
        entry == [key |-> key, data |-> data, timestamp |-> t, ttl |-> ttl,
                  accessCount |-> 1, lastAccessed |-> t]
        c1 == MapSet(c, key, entry)
    IN  IF Len(c1) > opts.maxSize /\ Len(c1) > 1 THEN SubSeq(c1, 1, Len(c1) - 1) ELSE c1

\* set that updates an existing entry in place: the value and ttl are new,
\* timestamp is kept and the write counts as one more access.
set_UpdatesInPlace(c, opts, key, data, customTtl, t) ==
    LET ttl == IF customTtl # <<>> /\ customTtl[1] # 0 THEN customTtl[1] ELSE opts.ttl
        entry == IF MapHas(c, key)
                 THEN [MapGet(c, key) EXCEPT !.data = data, !.ttl = ttl,
                                             !.accessCount = @ + 1, !.lastAccessed = t]
                 ELSE [key |-> key, data |-> data, timestamp |-> t, ttl |-> ttl,
                       accessCount |-> 1, lastAccessed |-> t]
        c1 == IF Len(c) >= opts.maxSize THEN evictLeastRecentlyUsed(c) ELSE c
    IN  MapSet(c1, key, entry)

\* customTtl || this.options.ttl: an undefined or zero customTtl gives the default.
set(c, opts, key, data, customTtl, t) ==
    LET ttl == IF customTtl # <<>> /\ customTtl[1] # 0 THEN customTtl[1] ELSE opts.ttl
        entry == [key |-> key, data |-> data, timestamp |-> t, ttl |-> ttl,
                  accessCount |-> 1, lastAccessed |-> t]
        c1 == IF Len(c) >= opts.maxSize THEN evictLeastRecentlyUsed(c) ELSE c
    IN  MapSet(c1, key, entry)

\* delete that returns true whether or not there was an entry.
delete_AlwaysTrue(c, key) == [cache |-> MapDelete(c, key), ret |-> TRUE]

delete(c, key) == [cache |-> MapDelete(c, key), ret |-> MapHas(c, key)]

clear(c) == <<>>

\* entries.reduce((sum, entry) => sum + entry.accessCount, 0)
RECURSIVE TotalAccesses(_)
TotalAccesses(c) ==
    IF c = <<>> THEN 0 ELSE Head(c).accessCount + TotalAccesses(Tail(c))

\* getStats that drops the expired entries before it reports.
getStats_Sweeps(c, opts, t) ==
    LET kept == SelectSeq(c, LAMBDA e : ~(t - e.timestamp > e.ttl)) IN
    [cache |-> kept,
     ret |-> [size |-> Len(kept), maxSize |-> opts.maxSize,
              hitRate |-> <<0, 1>>,
              entries |-> [i \in 1..Len(kept) |->
                             [key |-> kept[i].key, age |-> t - kept[i].timestamp,
                              accessCount |-> kept[i].accessCount]]]]

\* getStats: the store as it leaves it, and the snapshot returned.  hitRate,
\* the quotient size / totalAccesses (0 when there are no accesses), is kept
\* as the pair <<numerator, denominator>>.
getStats(c, opts, t) ==
    [cache |-> c,
     ret |-> [size |-> Len(c), maxSize |-> opts.maxSize,
              hitRate |-> IF TotalAccesses(c) > 0
                          THEN <<Len(c), TotalAccesses(c)>> ELSE <<0, 1>>,
              entries |-> [i \in 1..Len(c) |->
                             [key |-> c[i].key, age |-> t - c[i].timestamp,
                              accessCount |-> c[i].accessCount]]]]

\* A sweep that already removes an entry at the instant its ttl is reached.
cleanup_Inclusive(c, t) == SelectSeq(c, LAMBDA e : ~(t - e.timestamp >= e.ttl))

\* A sweep that collects the expired keys and deletes none of them.
cleanup_CollectsOnly(c, t) == c

cleanup(c, t) == SelectSeq(c, LAMBDA e : ~(t - e.timestamp > e.ttl))

\* clearInterval without the release of the handle.
stopCleanup_KeepsHandle(timer) == timer

\* clearInterval and release of the handle, when there is one.
stopCleanup(timer) == IF timer THEN FALSE ELSE timer

----------------------------------------------------------------------------
(* withCache: the synchronous part up to handler(), and the two callbacks *)

\* if (cached)
withCacheHit(cached) == Truthy(cached)

\* Single flight: a miss joins a call already in flight for the key.
withCacheInvokes_SingleFlight(cs, key, cached) ==
    /\ ~withCacheHit(cached)
    /\ ~\E d \in DOMAIN cs : cs[d].status = "pending" /\ cs[d].key = key

\* handler() is called on every miss, whatever calls are already in flight.
withCacheInvokes(cs, key, cached) == ~withCacheHit(cached)

\* A write-back that leaves an entry already stored under the key as it is.
onFulfilled_FirstWins(c, opts, key, result, customTtl, t) ==
    IF MapHas(c, key) THEN c ELSE set(c, opts, key, result, customTtl, t)

\* A write-back that is dropped when the store has been emptied meanwhile.
onFulfilled_SkipsEmptyStore(c, opts, key, result, customTtl, t) ==
    IF c = <<>> THEN c ELSE set(c, opts, key, result, customTtl, t)

\* .then(result => { cacheInstance.set(...); resolve(result) })
onFulfilled(c, opts, key, result, customTtl, t) ==
    set(c, opts, key, result, customTtl, t)

\* A rejection that is written to the store like a result.
onRejected_CachesError(c, opts, key, error, customTtl, t) ==
    set(c, opts, key, error, customTtl, t)

\* A rejection that drops whatever the store holds under the key.
onRejected_DropsEntry(c, opts, key, error, customTtl, t) == MapDelete(c, key)

\* .catch(reject): the store is not touched.
onRejected(c, opts, key, error, customTtl, t) == c

----------------------------------------------------------------------------
(* Inputs *)

\* Constructor arguments with a positive ttl and maxSize.
ValidArgs ==
    { [ttl |-> <<1>>, maxSize |-> <<2>>, autoCleanup |-> <<>>],
      [ttl |-> <<1>>, maxSize |-> <<1>>, autoCleanup |-> <<FALSE>>] }

ConstructorArgs ==
    ValidArgs \cup { [ttl |-> <<0>>, maxSize |-> <<0>>, autoCleanup |-> <<FALSE>>] }

\* (operation, params) pairs with three different keys.
Requests ==
    { <<"list_checks", <<>>>>,
      <<"list_checks", << <<"b", "2">>, <<"a", "1">> >> >>,
      <<"op", <<>>>> }

KeyOf(req) == generateKey(req[1], req[2])

IdleCall == [status |-> "idle", key |-> NoKey, customTtl |-> <<>>]

\* The record of the operation that ran last: what it was called with, what it
\* returned, and for a withCache event the call, whether handler() was invoked,
\* whether nothing else ran between the call's start and its end (alone), and
\* whether the store then differs from the store the call started with (changed);
\* for a sweep or a destroy, changed tells whether it had anything to remove or stop.
Event(op, key, ret, found, call, invoked, alone, changed) ==
    [op |-> op, key |-> key, ret |-> ret, found |-> found, call |-> call,
     invoked |-> invoked, alone |-> alone, changed |-> changed]

\* What an operation met under its key: no entry, an entry whose ttl has
\* elapsed (now - timestamp > ttl), or a live one.
Found(c, key, t) ==
    IF ~MapHas(c, key) THEN "absent"
    ELSE IF t - MapGet(c, key).timestamp > MapGet(c, key).ttl THEN "expired"
    ELSE "live"

StoreEvent(op, key, ret) ==
    Event(op, key, ret, IF key = NoKey THEN "none" ELSE Found(cache, key, now),
          0, 0, FALSE, FALSE)

\* The record of a set, which also keeps the customTtl argument it was called
\* with and the entries under other keys that the set removed (evicted).
SetEvent(key, data, customTtl) ==
    [op |-> "set", key |-> key, ret |-> data, found |-> Found(cache, key, now),
     call |-> 0, invoked |-> 0, alone |-> FALSE, changed |-> FALSE,
     customTtl |-> customTtl,
     evicted |-> Others(cache, key) \
                 Others(set(cache, options, key, data, customTtl, now), key)]

----------------------------------------------------------------------------
(* CacheInstances: the named stores created when the module is loaded, and  *)
(* the lifecycle stage AWS Trusted Advisor holds for a recommendation.      *)

RegistryNames == {"checks", "recommendations", "resources", "organization"}

CacheInstancesArgs(name) ==
    CASE name = "checks" ->
           [ttl |-> <<30 * 60 * 1000>>, maxSize |-> <<50>>, autoCleanup |-> <<TRUE>>]
      [] name = "recommendations" ->
           [ttl |-> <<10 * 60 * 1000>>, maxSize |-> <<100>>, autoCleanup |-> <<TRUE>>]
      [] name = "resources" ->
           [ttl |-> <<2 * 60 * 1000>>, maxSize |-> <<200>>, autoCleanup |-> <<TRUE>>]
      [] name = "organization" ->
           [ttl |-> <<15 * 60 * 1000>>, maxSize |-> <<25>>, autoCleanup |-> <<TRUE>>]

RegistryInit ==
    [name \in RegistryNames |->
       [options |-> Constructor(CacheInstancesArgs(name)).options,
        cache |-> <<>>,
        cleanupTimer |-> Constructor(CacheInstancesArgs(name)).cleanupTimer]]

\* cleanupAllCaches that calls destroy() on every named store.
cleanupAllCaches_Destroys(reg) ==
    [name \in DOMAIN reg |->
       [reg[name] EXCEPT !.cache = clear(@), !.cleanupTimer = stopCleanup(@)]]

\* cleanupAllCaches that leaves one named store out.
cleanupAllCaches_SkipsOne(reg) ==
    [name \in DOMAIN reg |->
       IF name = "organization" THEN reg[name]
       ELSE [reg[name] EXCEPT !.cache = clear(@)]]

\* Object.values(CacheInstances).forEach(cache => cache.clear())
cleanupAllCaches(reg) ==
    [name \in DOMAIN reg |-> [reg[name] EXCEPT !.cache = clear(@)]]

\* getGlobalCacheStats: the stores as it leaves them, and stats[name] = cache.getStats().
getGlobalCacheStats(reg, t) ==
    [registry |-> [name \in DOMAIN reg |->
                     [reg[name] EXCEPT
                        !.cache = getStats(reg[name].cache, reg[name].options, t).cache]],
     ret |-> [name \in DOMAIN reg |->
                getStats(reg[name].cache, reg[name].options, t).ret]]

\* name.split('_') for the operation names and patterns in use.
Segments(name) ==
    CASE name = "list_checks" -> <<"list", "checks">>
      [] name = "list"        -> <<"list">>
      [] name = "checks"      -> <<"checks">>
      [] name = "op"          -> <<"op">>

\* key.split('_') of the key `${operation}_${hash}`: the hash is sixteen
\* hex digits, one segment that is none of the names' segments.
KeySegments(key) == Segments(key.operation) \o <<key.hash>>

\* entry.key.includes(pattern), for a pattern made of whole segments.
Includes(key, pattern) ==
    LET ks == KeySegments(key)
        ps == Segments(pattern)
    IN  \E i \in 0..(Len(ks) - Len(ps)) :
            \A j \in 1..Len(ps) : ks[i + j] = ps[j]

\* invalidateCache: the store as it leaves it, and the number returned.  An
\* entry is counted when its key includes the pattern and the key's first
\* segment is the pattern; no entry is deleted.
invalidateCache(c, opts, pattern, t) ==
    LET stats == getStats(c, opts, t) IN
    [cache |-> stats.cache,
     ret |-> Cardinality({ i \in DOMAIN stats.ret.entries :
                 /\ Includes(stats.ret.entries[i].key, pattern)
                 /\ KeySegments(stats.ret.entries[i].key)[1] = pattern })]

\* Lifecycle stages of a recommendation.
LifecycleStages == {"pending_response", "in_progress", "dismissed"}

AwsInit == "pending_response"

\* An update handler that also empties the recommendations store.
updateRecommendationLifecycle_ClearsCache(reg, stage) ==
    [registry |-> [reg EXCEPT !["recommendations"].cache = clear(@)],
     aws |-> stage]

\* The update handler when trustedAdvisorClient.send succeeds: AWS holds the
\* new stage; CacheInstances is not referenced.
updateRecommendationLifecycle(reg, stage) == [registry |-> reg, aws |-> stage]

\* createListResponse(...) of what ListRecommendationsCommand returns: the
\* response shows the stage AWS holds; it is an object, so never falsy.
listRecommendationsResponse(stage) == stage

----------------------------------------------------------------------------
(* Initial state: a cache just constructed *)

InitWith(args) ==
    /\ ~Constructor(args).threw
    /\ options = Constructor(args).options
    /\ cleanupTimer = Constructor(args).cleanupTimer
    /\ cache = <<>>
    /\ now = 0
    /\ calls = [c \in Calls |-> IdleCall]
    /\ last = StoreEvent("new", NoKey, Undefined)
    /\ script = <<>>
    /\ registry = RegistryInit
    /\ aws = AwsInit

Init == \E args \in ConstructorArgs : InitWith(args)

----------------------------------------------------------------------------
(* Actions *)

\* Date.now() advances.
Tick ==
    /\ now < MaxTime
    /\ now' = now + 1
    /\ UNCHANGED <<options, cache, cleanupTimer, calls, last, script, registry, aws>>

\* A get may bump accessCount, which the model caps.
CanRead(key) ==
    MapHas(cache, key) => MapGet(cache, key).accessCount < MaxAccessCount

Get(req) ==
    LET key == KeyOf(req)
        r == get(cache, key, now)
    IN  /\ CanRead(key)
        /\ cache' = r.cache
        /\ last' = StoreEvent("get", key, r.ret)
        /\ UNCHANGED <<options, cleanupTimer, now, calls, script, registry, aws>>

Set(req, data, customTtl) ==
    LET key == KeyOf(req) IN
    /\ cache' = set(cache, options, key, data, customTtl, now)
    /\ last' = SetEvent(key, data, customTtl)
    /\ UNCHANGED <<options, cleanupTimer, now, calls, script, registry, aws>>

Delete(req) ==
    LET key == KeyOf(req)
        r == delete(cache, key)
    IN  /\ cache' = r.cache
        /\ last' = StoreEvent("delete", key, IF r.ret THEN "true" ELSE "false")
        /\ UNCHANGED <<options, cleanupTimer, now, calls, script, registry, aws>>

Clear ==
    /\ cache' = clear(cache)
    /\ last' = StoreEvent("clear", NoKey, Undefined)
    /\ UNCHANGED <<options, cleanupTimer, now, calls, script, registry, aws>>

\* The setInterval callback of startCleanupTimer fires.
CleanupTimerFires ==
    /\ cleanupTimer
    /\ cache' = cleanup(cache, now)
    /\ last' = [StoreEvent("cleanup", NoKey, Undefined) EXCEPT
                  !.changed = cleanup(cache, now) # cache]
    /\ UNCHANGED <<options, cleanupTimer, now, calls, script, registry, aws>>

StopCleanup ==
    /\ cleanupTimer' = stopCleanup(cleanupTimer)
    /\ last' = StoreEvent("stopCleanup", NoKey, Undefined)
    /\ UNCHANGED <<options, cache, now, calls, script, registry, aws>>

Destroy ==
    /\ cleanupTimer' = stopCleanup(cleanupTimer)
    /\ cache' = clear(cache)
    /\ last' = [StoreEvent("destroy", NoKey, Undefined) EXCEPT
                  !.changed = cleanupTimer \/ cache # <<>>]
    /\ UNCHANGED <<options, now, calls, script, registry, aws>>

GetStats ==
    LET r == getStats(cache, options, now) IN
    /\ cache' = r.cache
    /\ last' = StoreEvent("getStats", NoKey, r.ret)
    /\ UNCHANGED <<options, cleanupTimer, now, calls, script, registry, aws>>

\* CacheInstances[name].set(operation, params, data)
RegistrySet(name, req, data) ==
    /\ registry' = [registry EXCEPT ![name].cache =
                       set(@, registry[name].options, KeyOf(req), data, <<>>, now)]
    /\ last' = Event("registry.set", KeyOf(req), data,
                     Found(registry[name].cache, KeyOf(req), now), 0, 0, FALSE, FALSE)
    /\ UNCHANGED <<options, cache, cleanupTimer, now, calls, script, aws>>

CleanupAllCaches ==
    /\ registry' = cleanupAllCaches(registry)
    /\ last' = [StoreEvent("cleanupAllCaches", NoKey, Undefined) EXCEPT
                  !.changed = \E name \in RegistryNames : registry[name].cache # <<>>]
    /\ UNCHANGED <<options, cache, cleanupTimer, now, calls, script, aws>>

GetGlobalCacheStats ==
    LET r == getGlobalCacheStats(registry, now) IN
    /\ registry' = r.registry
    /\ last' = StoreEvent("getGlobalCacheStats", NoKey, r.ret)
    /\ UNCHANGED <<options, cache, cleanupTimer, now, calls, script, aws>>

\* invalidateCache(cache, pattern); count is the number it returns.
InvalidateCache(pattern) ==
    LET r == invalidateCache(cache, options, pattern, now) IN
    /\ cache' = r.cache
    /\ last' = [StoreEvent("invalidateCache", NoKey, Undefined) EXCEPT
                   !.changed = r.cache # cache]
                @@ [pattern |-> pattern, count |-> r.ret]
    /\ UNCHANGED <<options, cleanupTimer, now, calls, script, registry, aws>>

\* The listRecommendations handler up to the point where withCache returns
\* its promise, on CacheInstances.recommendations.
ListRecommendationsStart(c, req) ==
    LET key == KeyOf(req)
        store == registry["recommendations"]
        r == get(store.cache, key, now)
        hit == withCacheHit(r.ret)
        invokes == withCacheInvokes(calls, key, r.ret)
    IN  /\ calls[c].status = "idle"
        /\ MapHas(store.cache, key)
              => MapGet(store.cache, key).accessCount < MaxAccessCount
        /\ registry' = [registry EXCEPT !["recommendations"].cache = r.cache]
        /\ calls' = [calls EXCEPT ![c] =
              IF hit THEN IdleCall
              ELSE [status |-> "pending", key |-> key, customTtl |-> <<>>]]
        /\ last' = Event(IF hit THEN "listRecommendations.resolve"
                                ELSE "listRecommendations.pending",
                         key, r.ret, Found(store.cache, key, now), c,
                         IF invokes THEN 1 ELSE 0, TRUE, r.cache # store.cache)
        /\ UNCHANGED <<options, cache, cleanupTimer, now, script, aws>>

\* trustedAdvisorClient.send(ListRecommendationsCommand) resolves: the
\* response is built from what AWS holds and withCache writes it back.
ListRecommendationsResponds(c) ==
    LET store == registry["recommendations"]
        result == listRecommendationsResponse(aws)
    IN  /\ calls[c].status = "pending"
        /\ registry' = [registry EXCEPT !["recommendations"].cache =
              onFulfilled(store.cache, store.options, calls[c].key, result,
                          calls[c].customTtl, now)]
        /\ calls' = [calls EXCEPT ![c] = IdleCall]
        /\ last' = Event("listRecommendations.resolve", calls[c].key, result,
                         "none", c, 1, FALSE, FALSE)
        /\ UNCHANGED <<options, cache, cleanupTimer, now, script, aws>>

\* trustedAdvisorClient.send(ListRecommendationsCommand) rejects: withCache
\* rejects and the handler's catch returns an error response.
ListRecommendationsFails(c, error) ==
    LET store == registry["recommendations"] IN
    /\ calls[c].status = "pending"
    /\ registry' = [registry EXCEPT !["recommendations"].cache =
          onRejected(store.cache, store.options, calls[c].key, error,
                     calls[c].customTtl, now)]
    /\ calls' = [calls EXCEPT ![c] = IdleCall]
    /\ last' = Event("listRecommendations.error", calls[c].key, error,
                     "none", c, 1, FALSE, FALSE)
    /\ UNCHANGED <<options, cache, cleanupTimer, now, script, aws>>

\* The updateRecommendationLifecycle handler, the update succeeding.
UpdateRecommendationLifecycle(stage) ==
    LET r == updateRecommendationLifecycle(registry, stage) IN
    /\ registry' = r.registry
    /\ aws' = r.aws
    /\ last' = Event("updateRecommendationLifecycle", NoKey, stage,
                     "none", 0, 0, FALSE, FALSE)
    /\ UNCHANGED <<options, cache, cleanupTimer, now, calls, script>>

\* The updateRecommendationLifecycle handler, send rejecting: the catch
\* returns an error response.
UpdateRecommendationLifecycleFails(error) ==
    /\ last' = Event("updateRecommendationLifecycle.error", NoKey, error,
                     "none", 0, 0, FALSE, FALSE)
    /\ UNCHANGED <<options, cache, cleanupTimer, now, calls, script, registry, aws>>

\* The setInterval callback of CacheInstances.recommendations fires.
RecommendationsTimerFires ==
    /\ registry["recommendations"].cleanupTimer
    /\ registry' = [registry EXCEPT !["recommendations"].cache = cleanup(@, now)]
    /\ last' = [StoreEvent("recommendations.cleanup", NoKey, Undefined) EXCEPT
                  !.changed = cleanup(registry["recommendations"].cache, now)
                                # registry["recommendations"].cache]
    /\ UNCHANGED <<options, cache, cleanupTimer, now, calls, script, aws>>

\* Six minutes pass: an entry of the recommendations store (ttl ten minutes)
\* is live after one such step and expired after two.
SixMinutesPass ==
    /\ now < MaxTime * (6 * 60 * 1000)
    /\ now' = now + 6 * 60 * 1000
    /\ UNCHANGED <<options, cache, cleanupTimer, calls, last, script, registry, aws>>

\* withCache up to the point where it returns its promise: a hit resolves it,
\* a miss calls handler(), which returns a pending promise.
WithCacheStart(c, req, customTtl) ==
    LET key == KeyOf(req)
        r == get(cache, key, now)
        hit == withCacheHit(r.ret)
        invokes == withCacheInvokes(calls, key, r.ret)
    IN  /\ calls[c].status = "idle"
        /\ CanRead(key)
        /\ cache' = r.cache
        /\ calls' = [calls EXCEPT ![c] =
              IF hit THEN IdleCall
              ELSE [status |-> "pending", key |-> key, customTtl |-> customTtl]]
        /\ last' = Event(IF hit THEN "withCache.resolve" ELSE "withCache.pending",
                         key, r.ret, Found(cache, key, now), c,
                         IF invokes THEN 1 ELSE 0, TRUE, r.cache # cache)
        /\ UNCHANGED <<options, cleanupTimer, now, script, registry, aws>>

\* A miss whose handler() throws before returning a promise: the executor's
\* exception rejects the promise withCache returns.
WithCacheHandlerThrows(c, req, customTtl, error) ==
    LET key == KeyOf(req)
        r == get(cache, key, now)
        after == onRejected(r.cache, options, key, error, customTtl, now)
    IN  /\ calls[c].status = "idle"
        /\ CanRead(key)
        /\ ~withCacheHit(r.ret)
        /\ withCacheInvokes(calls, key, r.ret)
        /\ cache' = after
        /\ UNCHANGED calls
        /\ last' = Event("withCache.reject", key, error, Found(cache, key, now), c,
                         1, TRUE, after # cache)
        /\ UNCHANGED <<options, cleanupTimer, now, script, registry, aws>>

\* Whether call c's start was the operation that ran last.
StartedLast(c) == last.op = "withCache.pending" /\ last.call = c

\* The handler's promise fulfils with result.
HandlerFulfils(c, result) ==
    LET after == onFulfilled(cache, options, calls[c].key, result,
                             calls[c].customTtl, now)
    IN  /\ calls[c].status = "pending"
        /\ cache' = after
        /\ calls' = [calls EXCEPT ![c] = IdleCall]
        /\ last' = Event("withCache.resolve", calls[c].key, result,
                         IF StartedLast(c) THEN last.found ELSE "none", c, 1,
                         StartedLast(c),
                         StartedLast(c) /\ (last.changed \/ after # cache))
        /\ UNCHANGED <<options, cleanupTimer, now, script, registry, aws>>

\* The handler's promise rejects with error.
HandlerRejects(c, error) ==
    LET after == onRejected(cache, options, calls[c].key, error,
                            calls[c].customTtl, now)
    IN  /\ calls[c].status = "pending"
        /\ cache' = after
        /\ calls' = [calls EXCEPT ![c] = IdleCall]
        /\ last' = Event("withCache.reject", calls[c].key, error,
                         IF StartedLast(c) THEN last.found ELSE "none", c, 1,
                         StartedLast(c),
                         StartedLast(c) /\ (last.changed \/ after # cache))
        /\ UNCHANGED <<options, cleanupTimer, now, script, registry, aws>>

----------------------------------------------------------------------------
(* Specification *)

StoreOps(reqs, values, ttls) ==
    \/ Tick
    \/ \E req \in reqs : Get(req)
    \/ \E req \in reqs, data \in values, customTtl \in ttls :
          Set(req, data, customTtl)
    \/ \E req \in reqs : Delete(req)
    \/ Clear
    \/ CleanupTimerFires
    \/ StopCleanup
    \/ Destroy

MemoOps(cs, reqs, values, ttls) ==
    \/ \E c \in cs, req \in reqs, customTtl \in ttls :
          WithCacheStart(c, req, customTtl)
    \/ \E c \in cs, req \in reqs, customTtl \in ttls, error \in Errors :
          WithCacheHandlerThrows(c, req, customTtl, error)
    \/ \E c \in cs, result \in values : HandlerFulfils(c, result)
    \/ \E c \in cs, error \in Errors : HandlerRejects(c, error)

\* The operations that write the store or its timer, and withCache (one call
\* at a time), on three keys, one value and the default ttl.
Next ==
    \/ StoreOps(Requests, {"r1"}, {<<>>})
    \/ MemoOps({1}, Requests, {"r1"}, {<<>>})

Spec == Init /\ [][Next]_vars

\* Two keys.
TwoRequests == { <<"list_checks", <<>>>>, <<"op", <<>>>> }

\* The store's own operations on two keys, with every value and default and
\* custom ttls.
StoreNext == StoreOps(TwoRequests, Values, {<<>>, <<0>>, <<2>>})

SpecStore == Init /\ [][StoreNext]_vars

\* The store's own operations on two keys and getStats.
StatsNext ==
    \/ StoreOps(TwoRequests, {"r1"}, {<<>>})
    \/ GetStats

SpecStats == Init /\ [][StatsNext]_vars

\* withCache calls in flight together on two keys, with every value, and
\* the clock.
MemoNext ==
    \/ Tick
    \/ MemoOps(Calls, TwoRequests, Values, {<<>>})

MemoInit == \E args \in ValidArgs : InitWith(args)

SpecMemo == MemoInit /\ [][MemoNext]_vars

\* The request of the unit test "should clean up all caches".
RegistryRequest == <<"op", << <<"key", "value">> >> >>

\* One store of its own, written and cleared, and the named stores of the
\* registry: writes to each of them and the two functions that fan out to
\* all of them.
RegistryNext ==
    \/ Tick
    \/ Set(RegistryRequest, "r1", <<>>)
    \/ Clear
    \/ \E name \in RegistryNames : RegistrySet(name, RegistryRequest, "r1")
    \/ CleanupAllCaches
    \/ GetGlobalCacheStats

SpecRegistry == MemoInit /\ [][RegistryNext]_vars

\* Patterns handed to invalidateCache: the two operation names in use, one
\* of them with an underscore, their segments, and a name no key has.
Patterns == {"op", "list_checks", "list", "checks"}

\* The store's own operations on two keys and invalidateCache.
InvalidateNext ==
    \/ StoreOps(TwoRequests, {"r1"}, {<<>>})
    \/ \E pattern \in Patterns : InvalidateCache(pattern)

SpecInvalidate == Init /\ [][InvalidateNext]_vars

\* The store's own operations on two keys, writes to the two named stores
\* the registry test writes to, and cleanupAllCaches.
LifetimeNext ==
    \/ StoreOps(TwoRequests, {"r1"}, {<<>>})
    \/ \E name \in {"checks", "recommendations"} :
          RegistrySet(name, RegistryRequest, "r1")
    \/ CleanupAllCaches

SpecLifetime == Init /\ [][LifetimeNext]_vars

\* The one key of the runs below.
RaceRequest == <<"list_checks", <<>>>>

\* One withCache call on one key, and the operations that empty the store or
\* remove the key: the only operation that can run between the call's start
\* and the settling of its handler is a clear, a destroy or a delete of the
\* call's key.
InFlightNext ==
    \/ Tick
    \/ MemoOps({1}, {RaceRequest}, {"r1"}, {<<>>})
    \/ Delete(RaceRequest)
    \/ Clear
    \/ Destroy

SpecInFlight == Init /\ [][InFlightNext]_vars

\* Two withCache calls for one key whose handlers always fulfil, with every
\* value, and the clock: the only operation that can run between a call's
\* start and the arrival of its result is a start or an arrival of the other
\* call.
RaceNext ==
    \/ Tick
    \/ \E c \in Calls : WithCacheStart(c, RaceRequest, <<>>)
    \/ \E c \in Calls, result \in Values : HandlerFulfils(c, result)

SpecRace == MemoInit /\ [][RaceNext]_vars

\* list-recommendations requests with two different params objects.
ListRequests ==
    { <<"list_recommendations", <<>>>>,
      <<"list_recommendations", << <<"status", "ok">> >> >> }

\* The two resource handlers of recommendations: list requests through the
\* recommendations store, lifecycle updates, the store's sweep, and minutes
\* passing.
HandlersNext ==
    \/ SixMinutesPass
    \/ \E req \in ListRequests : ListRecommendationsStart(1, req)
    \/ ListRecommendationsResponds(1)
    \/ \E error \in Errors : ListRecommendationsFails(1, error)
    \/ \E stage \in LifecycleStages : UpdateRecommendationLifecycle(stage)
    \/ \E error \in Errors : UpdateRecommendationLifecycleFails(error)
    \/ RecommendationsTimerFires

SpecHandlers == MemoInit /\ [][HandlersNext]_vars

----------------------------------------------------------------------------
(* The LRU scenario of the unit test "should evict least recently used     *)
(* entries when at capacity": a store of maxSize 3, the operations of the  *)
(* test in order, the clock free to advance between them.                  *)

P4Req(n) == <<"op", << <<"key", n>> >> >>

P4Args == [ttl |-> <<>>, maxSize |-> <<3>>, autoCleanup |-> <<FALSE>>]

P4Script ==
    << [op |-> "set", req |-> P4Req("1")],
       [op |-> "set", req |-> P4Req("2")],
       [op |-> "set", req |-> P4Req("3")],
       [op |-> "get", req |-> P4Req("1")],
       [op |-> "set", req |-> P4Req("4")],
       [op |-> "get", req |-> P4Req("1")],
       [op |-> "get", req |-> P4Req("2")],
       [op |-> "get", req |-> P4Req("3")],
       [op |-> "get", req |-> P4Req("4")] >>

\* The next operation of the script runs.
ScriptStep ==
    /\ script # <<>>
    /\ LET step == Head(script)
           key == KeyOf(step.req)
       IN  IF step.op = "set"
           THEN /\ cache' = set(cache, options, key, "r1", <<>>, now)
                /\ last' = StoreEvent("set", key, "r1")
           ELSE /\ cache' = get(cache, key, now).cache
                /\ last' = StoreEvent("get", key, get(cache, key, now).ret)
    /\ script' = Tail(script)
    /\ UNCHANGED <<options, cleanupTimer, now, calls, registry, aws>>

P4Init ==
    /\ ~Constructor(P4Args).threw
    /\ options = Constructor(P4Args).options
    /\ cleanupTimer = Constructor(P4Args).cleanupTimer
    /\ cache = <<>>
    /\ now = 0
    /\ calls = [c \in Calls |-> IdleCall]
    /\ last = StoreEvent("new", NoKey, Undefined)
    /\ script = P4Script
    /\ registry = RegistryInit
    /\ aws = AwsInit

P4Next == Tick \/ ScriptStep

SpecP4 == P4Init /\ [][P4Next]_vars

----------------------------------------------------------------------------
(* Keys: a value is set under one params object and read under another, as *)
(* in the unit test "should generate consistent keys for same parameters". *)
(* The params objects are all those with property names among a, b and     *)
(* values among "1", "2", in every insertion order.                        *)

ParamPairs == { <<name, value>> : name \in {"a", "b"}, value \in {"1", "2"} }

ParamObjects ==
    {<<>>}
      \cup { <<p>> : p \in ParamPairs }
      \cup { <<pq[1], pq[2]>> :
                pq \in { r \in ParamPairs \X ParamPairs : r[1][1] # r[2][1] } }

KeyRequests == { <<operation, params>> :
                    operation \in {"testOp", "op"}, params \in ParamObjects }

\* set under r1, get under r2, then a get under each of them.
KeyScript(r1, r2) ==
    << [op |-> "set", req |-> r1],
       [op |-> "get", req |-> r2],
       [op |-> "get", req |-> r1],
       [op |-> "get", req |-> r2] >>

KeyInit ==
    /\ ~Constructor(P4Args).threw
    /\ options = Constructor(P4Args).options
    /\ cleanupTimer = Constructor(P4Args).cleanupTimer
    /\ cache = <<>>
    /\ now = 0
    /\ calls = [c \in Calls |-> IdleCall]
    /\ last = StoreEvent("new", NoKey, Undefined)
    /\ \E r1 \in KeyRequests, r2 \in KeyRequests : script = KeyScript(r1, r2)
    /\ registry = RegistryInit
    /\ aws = AwsInit

SpecKey == KeyInit /\ [][P4Next]_vars

----------------------------------------------------------------------------
(* A set followed by a get of the same key while the cleanup timer fires    *)
(* at any moment in between.  The store's ttl is the last value of the      *)
(* model's clock, so the clock is never past the ttl of the entry but does  *)
(* reach it.                                                                *)

LinArgs == [ttl |-> <<MaxTime>>, maxSize |-> <<2>>, autoCleanup |-> <<>>]

\* set under r2, then set under r1 and get under r1.
LinScript(r1, r2) ==
    << [op |-> "set", req |-> r2],
       [op |-> "set", req |-> r1],
       [op |-> "get", req |-> r1] >>

LinInit ==
    /\ ~Constructor(LinArgs).threw
    /\ options = Constructor(LinArgs).options
    /\ cleanupTimer = Constructor(LinArgs).cleanupTimer
    /\ cache = <<>>
    /\ now = 0
    /\ calls = [c \in Calls |-> IdleCall]
    /\ last = StoreEvent("new", NoKey, Undefined)
    /\ \E r1 \in Requests, r2 \in Requests : script = LinScript(r1, r2)
    /\ registry = RegistryInit
    /\ aws = AwsInit

LinNext == Tick \/ ScriptStep \/ CleanupTimerFires

SpecLin == LinInit /\ [][LinNext]_vars

----------------------------------------------------------------------------
(* A store constructed with autoCleanup left to its default (enabled) and    *)
(* never stopped or destroyed: the clock advances and the setInterval timer  *)
(* keeps firing.  The clock of the model stops at MaxTime, so writes are     *)
(* taken only while the model's clock can still pass the entry's ttl.        *)

SweepArgs == [ttl |-> <<1>>, maxSize |-> <<2>>, autoCleanup |-> <<>>]

SweepInit == InitWith(SweepArgs)

\* The ttl set stores for customTtl is passed before the model's clock stops.
ClockOutlasts(customTtl) ==
    now + set(<<>>, options, NoKey, Undefined, customTtl, now)[1].ttl < MaxTime

SweepNext ==
    \/ Tick
    \/ \E req \in Requests : Get(req)
    \/ \E req \in Requests, data \in {"r1"}, customTtl \in {<<>>, <<0>>} :
          ClockOutlasts(customTtl) /\ Set(req, data, customTtl)
    \/ \E req \in Requests : Delete(req)
    \/ Clear
    \/ CleanupTimerFires

SpecSweep ==
    SweepInit /\ [][SweepNext]_vars /\ WF_vars(Tick) /\ WF_vars(CleanupTimerFires)

----------------------------------------------------------------------------
(* Claims *)

\* A step that runs an operation (every operation records itself in last and
\* leaves the clock alone; Tick changes only the clock).
Ran(op) == now' = now /\ last'.op = op

\* C1: with maxSize >= 1 the store never holds more than maxSize entries, in
\* every state any sequence of get, set, delete, clear, sweep and withCache
\* operations reaches.
C1_SizeNeverExceedsMaxSize ==
    options.maxSize >= 1 => Len(cache) <= options.maxSize

\* A set or a withCache write-back has completed at a later clock value on a
\* store of maxSize 2, which is full and holds two of the three keys.
C1_Witness ==
    /\ options.maxSize = 2
    /\ Len(cache) = options.maxSize
    /\ last.op \in {"set", "withCache.resolve"}
    /\ ~MapHas(cache, KeyOf(<<"list_checks", <<>>>>))
    /\ now > 0

\* C2: get never returns the value of a dead entry: when the entry under the
\* key has now - timestamp > ttl, get returns undefined, swept or not,
\* whatever ttl the entry was stored with.
C2_GetNeverReturnsDeadEntry ==
    [][Ran("get") /\ Found(cache, last'.key, now) = "expired"
         => last'.ret = Undefined]_vars

\* A get met an expired entry on a store whose sweep timer is not running,
\* and missed.
C2_Witness ==
    /\ last.op = "get"
    /\ last.found = "expired"
    /\ last.ret = Undefined
    /\ ~cleanupTimer

\* C3: set(op, params, value) followed by get(op, params), with no operation
\* in between and the entry's ttl not elapsed, returns value.
C3_SetThenGetRoundTrip ==
    [][(/\ last.op = "set"
        /\ Ran("get")
        /\ last'.key = last.key
        /\ Found(cache, last.key, now) # "expired")
         => last'.ret = last.ret]_vars

\* A get hit an entry read once since it was set, at a later clock value.
C3_Witness ==
    /\ last.op = "get"
    /\ last.found = "live"
    /\ last.ret = ""
    /\ MapHas(cache, last.key)
    /\ MapGet(cache, last.key).accessCount = 2
    /\ MapGet(cache, last.key).timestamp < now

\* C4: with maxSize = 3, after set k1, k2, k3, a successful get of k1 and a
\* set of k4, exactly one of k2/k3 has been evicted and k1 and k4 are still
\* retrievable.
C4_LruRespectsReads ==
    (options.maxSize = 3 /\ Len(script) <= 4) =>
        /\ MapHas(cache, KeyOf(P4Req("1")))
        /\ MapHas(cache, KeyOf(P4Req("4")))
        /\ MapHas(cache, KeyOf(P4Req("2"))) # MapHas(cache, KeyOf(P4Req("3")))

\* A step in which a withCache call starts: its synchronous part runs.
WithCacheOps == {"withCache.resolve", "withCache.pending", "withCache.reject"}

Started ==
    /\ now' = now
    /\ last'.op \in WithCacheOps
    /\ calls[last'.call].status = "idle"

\* A step in which the handler's promise of a pending call settles.
Settled(op) ==
    /\ Ran(op)
    /\ calls[last'.call].status = "pending"

\* C5: when a live entry is stored under (operationName, params), withCache
\* resolves with the stored value and does not invoke produce, for every
\* stored value.
C5_HitReturnsCachedWithoutProduce ==
    [][(Started /\ Found(cache, last'.key, now) = "live")
         => /\ last'.op = "withCache.resolve"
            /\ last'.ret = MapGet(cache, last'.key).data
            /\ last'.invoked = 0]_vars

\* C6: on a miss produce is invoked once; its result r is stored under the
\* key and returned; so of two sequential calls with the same key, the
\* second within the ttl, only the first invokes produce and both return r.
C6_SecondSequentialCallHits ==
    [][/\ (Started /\ Found(cache, last'.key, now) # "live")
           => last'.invoked = 1
       /\ Settled("withCache.resolve")
           => /\ last'.invoked = 1
              /\ MapHas(cache', last'.key)
              /\ MapGet(cache', last'.key).data = last'.ret
       /\ (/\ last.op = "withCache.resolve"
           /\ last.invoked = 1
           /\ last.alone
           /\ Started
           /\ last'.key = last.key
           /\ Found(cache, last.key, now) # "expired")
           => /\ last'.op = "withCache.resolve"
              /\ last'.invoked = 0
              /\ last'.ret = last.ret]_vars

\* C7: when produce rejects or throws, withCache rejects with the error, no
\* entry is created and no error is ever stored, and the next withCache call
\* with the same key invokes produce again.
C7_FailuresAreNeverCached ==
    [][/\ Ran("withCache.reject")
           => /\ last'.ret \in Errors
              /\ MapHas(cache', last'.key) => MapHas(cache, last'.key)
              /\ \A i \in 1..Len(cache') : cache'[i].data \notin Errors
       /\ (/\ last.op = "withCache.reject"
           /\ last.alone
           /\ Started
           /\ last'.key = last.key)
           => /\ last'.op # "withCache.resolve"
              /\ last'.invoked = 1]_vars

\* A call whose handler rejected, with nothing else run during the call, has
\* left no entry under its key.
C7_Witness ==
    /\ last.op = "withCache.reject"
    /\ last.alone
    /\ last.found = "absent"
    /\ ~MapHas(cache, last.key)
    /\ Len(cache) > 0

\* C8 as claimed: a withCache call that fails, with no other operation
\* interleaved, leaves the store exactly as it was before the call, also
\* when the store held an expired entry under the requested key.  (Stated
\* for the calls that met no entry or an expired one under their key.)
C8_FailedCallLeavesStoreUntouched ==
    (/\ last.op = "withCache.reject"
     /\ last.alone
     /\ last.found \in {"absent", "expired"})
      => ~last.changed

\* C8 as amended: a failed withCache call changes the store only as the get
\* at its start does.  Entries under other keys keep their fields and order
\* and no entry is added; an absent key leaves the store as it was; an
\* expired entry under the key is removed; a live entry under the key that
\* did not count as a hit keeps value, timestamp and ttl, with accessCount
\* incremented and lastAccessed set to now.  The rejection changes nothing.
C8_FailedCallChangesOnlyAsItsGet ==
    [][/\ (Started /\ last'.op # "withCache.resolve")
           => LET key == last'.key IN
              /\ MapDelete(cache', key) = MapDelete(cache, key)
              /\ Found(cache, key, now) = "absent" => cache' = cache
              /\ Found(cache, key, now) = "expired" => ~MapHas(cache', key)
              /\ Found(cache, key, now) = "live"
                   => /\ MapIndex(cache', key) = MapIndex(cache, key)
                      /\ MapGet(cache', key) =
                            [MapGet(cache, key) EXCEPT
                               !.accessCount = @ + 1, !.lastAccessed = now]
       /\ Settled("withCache.reject") => cache' = cache]_vars

\* A call that failed with nothing interleaved had met an expired entry under
\* its key, and the store differs from the one it started with.
C8_Witness ==
    /\ last.op = "withCache.reject"
    /\ last.alone
    /\ last.found = "expired"
    /\ last.changed
    /\ ~MapHas(cache, last.key)

\* C9: a withCache call that starts on a miss while another call for the same
\* key is in flight invokes its own produce, and a call that resolves leaves
\* the other calls in flight as they are.
C9_NoSingleFlight ==
    [][/\ (/\ Started
           /\ last'.op = "withCache.pending"
           /\ \E d \in Calls : calls[d].status = "pending" /\ calls[d].key = last'.key)
           => /\ last'.invoked = 1
              /\ \A d \in Calls \ {last'.call} : calls'[d] = calls[d]
       /\ Settled("withCache.resolve")
           => \A d \in Calls \ {last'.call} : calls'[d] = calls[d]]_vars

\* Two calls for the same key are in flight, the second having just invoked
\* its own handler.
C9_Witness ==
    /\ last.op = "withCache.pending"
    /\ last.invoked = 1
    /\ \A c \in Calls : calls[c].status = "pending" /\ calls[c].key = last.key

\* C10: no store with maxSize <= 0 or default ttl <= 0 exists: constructing
\* one throws.
C10_InvalidConstructionThrows ==
    options.maxSize > 0 /\ options.ttl > 0

\* C11: a set on a key already present, also in a store holding exactly
\* maxSize entries, removes no entry: the store holds the same keys afterwards
\* and every entry under another key is as it was.
C11_OverwriteEvictsNothing ==
    [][(Ran("set") /\ MapHas(cache, last'.key))
         => /\ StoredKeys(cache') = StoredKeys(cache)
            /\ Others(cache', last'.key) = Others(cache, last'.key)]_vars

\* A step that writes an entry: a set, or the write-back of a withCache call.
Wrote == Ran("set") \/ Settled("withCache.resolve")

\* The entries of the store whose ttl has not elapsed.
LiveEntries(c, t) == { c[i] : i \in { j \in 1..Len(c) : ~(t - c[j].timestamp > c[j].ttl) } }

AllEntries(c) == { c[i] : i \in 1..Len(c) }

\* C12 as claimed: a set of a new key that would take the store above maxSize
\* removes exactly one entry before the new one is admitted, and that entry
\* is the one with the oldest lastAccessed among the entries live at that
\* moment.  (Stated for stores of maxSize >= 1.)
C12_EvictsOldestLiveEntry ==
    [][(/\ Wrote
        /\ options.maxSize >= 1
        /\ ~MapHas(cache, last'.key)
        /\ Len(cache) + 1 > options.maxSize)
         => \E e \in LiveEntries(cache, now) :
               /\ Others(cache', last'.key) = AllEntries(cache) \ {e}
               /\ MapHas(cache', last'.key)
               /\ \A f \in LiveEntries(cache, now) :
                      e.lastAccessed <= f.lastAccessed]_vars

\* C12 as amended: a set of a new key that finds entries in the store and
\* would take it above maxSize removes exactly one entry before the new one
\* is admitted, and that entry is one with the oldest lastAccessed among all
\* the entries in the store, live or expired.
C12_EvictsOldestEntry ==
    [][(/\ Wrote
        /\ ~MapHas(cache, last'.key)
        /\ Len(cache) > 0
        /\ Len(cache) + 1 > options.maxSize)
         => \E e \in AllEntries(cache) :
               /\ Others(cache', last'.key) = AllEntries(cache) \ {e}
               /\ MapHas(cache', last'.key)
               /\ \A f \in AllEntries(cache) :
                      e.lastAccessed <= f.lastAccessed]_vars

\* A set of a new key into a full store of two entries evicted an expired
\* entry that had been read after the other entry was written.
C12_Witness ==
    /\ last.op = "set"
    /\ last.found = "absent"
    /\ Len(cache) = 2
    /\ \E e \in last.evicted :
          /\ now - e.timestamp > e.ttl
          /\ e.accessCount > 1

\* C13: a sweep removes exactly the entries with now - timestamp > ttl, read
\* or not, and leaves every other entry present with all its fields as they
\* were; the sweep removes an entry exactly when a get of its key at that
\* moment would remove it.
C13_SweepRemovesExactlyDeadEntries ==
    [][Ran("cleanup")
         => /\ \A e \in AllEntries(cache) :
                  /\ (now - e.timestamp > e.ttl) => ~MapHas(cache', e.key)
                  /\ ~(now - e.timestamp > e.ttl)
                       => MapHas(cache', e.key) /\ MapGet(cache', e.key) = e
                  /\ MapHas(cache', e.key)
                       <=> MapHas(get(cache, e.key, now).cache, e.key)
            /\ AllEntries(cache') \subseteq AllEntries(cache)]_vars

\* A sweep removed an entry and kept one that was never read and whose age
\* is exactly its ttl.
C13_Witness ==
    /\ last.op = "cleanup"
    /\ last.changed
    /\ Len(cache) = 1
    /\ now - cache[1].timestamp = cache[1].ttl
    /\ cache[1].accessCount = 1

\* The store holds an entry under the key of req that was written at time t.
Holds(req, t) ==
    /\ MapHas(cache, KeyOf(req))
    /\ MapGet(cache, KeyOf(req)).timestamp = t

\* C14: in a store with autoCleanup enabled and not stopped or destroyed,
\* with the clock advancing and the cleanup timer firing, every entry that is
\* written is eventually removed from the store, read again or not.
C14_ExpiredEntriesEventuallyReclaimed ==
    \A req \in Requests : \A t \in 0..MaxTime :
        Holds(req, t) ~> ~Holds(req, t)

\* A sweep of the running timer emptied the store after the clock had passed
\* the ttl of what it held.
C14_Witness ==
    /\ last.op = "cleanup"
    /\ last.changed
    /\ cleanupTimer
    /\ cache = <<>>
    /\ now = MaxTime

\* C15: destroy, from any state and also right after a destroy, leaves the
\* store with no entry and the timer handle released; a destroy right after a
\* destroy and a stopCleanup on a stopped store change nothing.
C15_DestroyIsIdempotent ==
    [][/\ Ran("destroy") => (cache' = <<>> /\ ~cleanupTimer')
       /\ (last.op = "destroy" /\ Ran("destroy"))
            => (cache' = cache /\ cleanupTimer' = cleanupTimer /\ ~last'.changed)
       /\ (Ran("stopCleanup") /\ ~cleanupTimer)
            => (cache' = cache /\ cleanupTimer' = cleanupTimer)]_vars

\* A destroy ran on a store that was constructed with the timer running and
\* was already stopped and empty.
C15_Witness ==
    /\ last.op = "destroy"
    /\ ~last.changed
    /\ options.autoCleanup
    /\ cache = <<>>
    /\ ~cleanupTimer

\* C16: getStats leaves the store as it was, entry by entry, expired entries
\* included, and the timer too; the size it reports is the number of entries
\* in the store, with one line per entry, and maxSize is the configured cap.
C16_GetStatsIsReadOnly ==
    [][Ran("getStats")
         => /\ cache' = cache
            /\ cleanupTimer' = cleanupTimer
            /\ options' = options
            /\ last'.ret.size = Len(cache)
            /\ Len(last'.ret.entries) = Len(cache)
            /\ last'.ret.maxSize = options.maxSize]_vars

\* getStats reported two entries, one of them expired and one of them read,
\* and both are still in the store.
C16_Witness ==
    /\ last.op = "getStats"
    /\ last.ret.size = 2
    /\ Len(cache) = 2
    /\ \E e \in AllEntries(cache) : now - e.timestamp > e.ttl
    /\ \E e \in AllEntries(cache) : e.accessCount > 1

\* A step whose get, direct or at the start of a withCache call, finds a live
\* entry under key.
ReadLive(key) ==
    /\ Ran("get") \/ Started
    /\ last'.key = key
    /\ Found(cache, key, now) = "live"

\* C17: every stored entry has accessCount >= 1; a write of a key leaves its
\* entry with accessCount 1, a get that finds the entry live adds one, and
\* no other step changes the accessCount of an entry that stays in the
\* store: the count is 1 plus the hits since the last set of the key.
C17_AccessCountCountsHits ==
    [][\A e \in AllEntries(cache') :
          /\ e.accessCount >= 1
          /\ IF Wrote /\ last'.key = e.key
             THEN e.accessCount = 1
             ELSE /\ MapHas(cache, e.key)
                  /\ e.accessCount = MapGet(cache, e.key).accessCount
                        + (IF ReadLive(e.key) THEN 1 ELSE 0)]_vars

\* A get has brought an entry written earlier to the largest count of the
\* model while another entry still has the count of its set.
C17_Witness ==
    /\ last.op = "get"
    /\ last.found = "live"
    /\ MapHas(cache, last.key)
    /\ MapGet(cache, last.key).accessCount = MaxAccessCount
    /\ \E e \in AllEntries(cache) : e.accessCount = 1

\* Two params objects that hold the same name/value pairs.
SamePairs(p1, p2) ==
    { p1[i] : i \in 1..Len(p1) } = { p2[i] : i \in 1..Len(p2) }

\* The script has run its set and its first get: what is left of it names
\* the request of the set and the request of the get.
SetThenGetRan == Len(script) = 2 /\ last.op = "get"

\* C18: for one operation name and two params objects holding the same
\* name/value pairs, in whatever order they were inserted, the keys are the
\* same, and a value set under one is what get returns under the other.
C18_KeyOrderIndependence ==
    (/\ SetThenGetRan
     /\ script[1].req[1] = script[2].req[1]
     /\ SamePairs(script[1].req[2], script[2].req[2]))
      => /\ KeyOf(script[1].req) = KeyOf(script[2].req)
         /\ last.ret = "r1"

\* A value set under {b, a} was read under {a, b}, or the other way round.
C18_Witness ==
    /\ SetThenGetRan
    /\ script[1].req[1] = script[2].req[1]
    /\ SamePairs(script[1].req[2], script[2].req[2])
    /\ script[1].req[2] # script[2].req[2]
    /\ last.ret = "r1"
    /\ now > 0

\* C19: delete returns true exactly when the store held an entry under the
\* key, live or expired; it leaves no entry under the key and every other
\* entry as it was, and a get of the key right after it is a miss.
C19_DeleteReportsPresence ==
    [][/\ Ran("delete")
           => /\ last'.ret = (IF MapHas(cache, last'.key) THEN "true" ELSE "false")
              /\ ~MapHas(cache', last'.key)
              /\ Others(cache', last'.key) = Others(cache, last'.key)
              /\ Len(cache') = Len(cache) - (IF MapHas(cache, last'.key) THEN 1 ELSE 0)
       /\ (last.op = "delete" /\ Ran("get") /\ last'.key = last.key)
           => (last'.ret = Undefined /\ cache' = cache)]_vars

\* A delete of an expired entry returned true and left the other entry.
C19_Witness ==
    /\ last.op = "delete"
    /\ last.found = "expired"
    /\ last.ret = "true"
    /\ Len(cache) = 1

\* The ttl the claim gives an entry written with customTtl.
OverrideOrDefault(customTtl) ==
    IF customTtl # <<>> THEN customTtl[1] ELSE options.ttl

\* C20: the entry a set or a withCache write-back stores has the ttl of the
\* override when one is supplied, whatever its value, and the default ttl of
\* the store otherwise; a get misses an entry of the store exactly when that
\* entry's own ttl has elapsed.
C20_StoredTtlIsOverride ==
    [][/\ Ran("set")
           => MapGet(cache', last'.key).ttl = OverrideOrDefault(last'.customTtl)
       /\ Settled("withCache.resolve")
           => MapGet(cache', last'.key).ttl =
                 OverrideOrDefault(calls[last'.call].customTtl)
       /\ (Ran("get") /\ MapHas(cache, last'.key))
           => (last'.ret = Undefined
                 <=> now - MapGet(cache, last'.key).timestamp
                       > MapGet(cache, last'.key).ttl)]_vars

\* C21: clear leaves its store with no entry, whatever it held; after
\* cleanupAllCaches every named store of the registry has no entry, and a
\* getGlobalCacheStats right after it reports size 0 for each of them.
C21_BulkClearFansOut ==
    [][/\ Ran("clear") => cache' = <<>>
       /\ Ran("cleanupAllCaches")
           => \A name \in RegistryNames : registry'[name].cache = <<>>
       /\ (last.op = "cleanupAllCaches" /\ Ran("getGlobalCacheStats"))
           => \A name \in RegistryNames :
                 /\ last'.ret[name].size = 0
                 /\ last'.ret[name].entries = <<>>]_vars

\* cleanupAllCaches ran when named stores held entries, and none holds one
\* now; the store outside the registry still holds its entry, now expired.
C21_Witness ==
    /\ last.op = "cleanupAllCaches"
    /\ last.changed
    /\ Len(cache) = 1
    /\ now - cache[1].timestamp > cache[1].ttl
    /\ \A name \in RegistryNames : registry[name].cache = <<>>
    /\ now > 0

\* C22: a set on a key followed by a get of the same key, with sweeps run
\* at any moment between them, the clock not past the entry's ttl and no
\* other set, delete or clear of the key in between, returns the value set.
C22_SetThenGetAcrossSweeps ==
    (script = <<>> /\ last.op = "get") => last.ret = "r1"

\* Between the set and the get a sweep has run at the moment the entry's age
\* is exactly its ttl, and the entry is still there.
C22_Witness ==
    /\ Len(script) = 1
    /\ last.op = "cleanup"
    /\ MapHas(cache, KeyOf(script[1].req))
    /\ now - MapGet(cache, KeyOf(script[1].req)).timestamp = options.ttl

\* C23: a get changes nothing in the store but the entry under its key: on
\* a hit that entry's accessCount goes up by one and its lastAccessed
\* becomes now, with value, timestamp and ttl as they were; an expired entry
\* under the key is removed; a get of an absent key changes nothing.  The
\* entries under other keys, their order, the options and the timer are
\* left alone.
C23_FrameOfGet ==
    [][Ran("get")
         => LET key == last'.key IN
            /\ MapDelete(cache', key) = MapDelete(cache, key)
            /\ options' = options
            /\ cleanupTimer' = cleanupTimer
            /\ Found(cache, key, now) = "absent"
                 => (cache' = cache /\ last'.ret = Undefined)
            /\ Found(cache, key, now) = "expired"
                 => (~MapHas(cache', key) /\ last'.ret = Undefined)
            /\ Found(cache, key, now) = "live"
                 => /\ MapIndex(cache', key) = MapIndex(cache, key)
                    /\ MapGet(cache', key) =
                          [MapGet(cache, key) EXCEPT
                             !.accessCount = @ + 1, !.lastAccessed = now]]_vars

\* A get hit an entry written earlier with a ttl of its own, while the store
\* holds another entry: the entry read keeps its timestamp and ttl.
C23_Witness ==
    /\ last.op = "get"
    /\ last.found = "live"
    /\ Len(cache) = 2
    /\ MapGet(cache, last.key).timestamp < now
    /\ MapGet(cache, last.key).lastAccessed = now
    /\ MapGet(cache, last.key).ttl = 2

\* The position of the entry with the smallest lastAccessed, the first of
\* them in insertion order when several share it.
FirstOldest(c) ==
    CHOOSE i \in 1..Len(c) :
        /\ \A j \in 1..Len(c) : c[i].lastAccessed <= c[j].lastAccessed
        /\ \A j \in 1..(i - 1) : c[j].lastAccessed > c[i].lastAccessed

\* C24: a write that finds the store at its cap (and not empty) removes the
\* entry with the smallest lastAccessed among all entries, expired or not,
\* the first in insertion order among those that share it; a write removes
\* no other entry, so at most one key leaves the store per set.
C24_EvictionVictim ==
    [][Wrote
         => LET key == last'.key IN
            /\ Cardinality(StoredKeys(cache) \ StoredKeys(cache')) <= 1
            /\ IF Len(cache) > 0 /\ Len(cache) >= options.maxSize
               THEN Others(cache', key) = Others(cache, key) \ {cache[FirstOldest(cache)]}
               ELSE Others(cache', key) = Others(cache, key)]_vars

\* A set evicted an entry that shared the smallest lastAccessed with an
\* entry that stays in the store.
C24_Witness ==
    /\ last.op = "set"
    /\ \E e \in last.evicted :
          \E f \in Others(cache, last.key) : f.lastAccessed = e.lastAccessed

\* C25: a set on a key that has an entry leaves under that key exactly one
\* entry, made from the arguments of this set alone: the new value,
\* timestamp = now, accessCount = 1, lastAccessed = now, and a ttl that is the
\* override or the store's default (the default when no override is given),
\* so that the entry's age is counted from this set.
C25_OverwriteResetsEntry ==
    [][(Ran("set") /\ MapHas(cache, last'.key))
         => LET key == last'.key
                e   == MapGet(cache', key)
            IN  /\ Cardinality({ i \in 1..Len(cache') : cache'[i].key = key }) = 1
                /\ e.data = last'.ret
                /\ e.timestamp = now
                /\ e.accessCount = 1
                /\ e.lastAccessed = now
                /\ e.ttl \in {options.ttl} \cup { last'.customTtl[i] : i \in DOMAIN last'.customTtl }]_vars

\* A set without an override, later than time 0, replaced an entry whose ttl
\* had elapsed; the new entry has the default ttl and is live.
C25_Witness ==
    /\ last.op = "set"
    /\ last.found = "expired"
    /\ last.customTtl = <<>>
    /\ now > 0
    /\ Found(cache, last.key, now) = "live"
    /\ MapGet(cache, last.key).accessCount = 1

\* The entries of c whose key was generated for the operation.
EntriesOf(c, operation) == { e \in AllEntries(c) : e.key.operation = operation }

\* C26: after invalidateCache(cache, pattern) no entry whose operation name
\* is the pattern can be read from the store, and the number returned is the
\* number of entries the call removed.
C26_InvalidateRemovesMatches ==
    [][Ran("invalidateCache")
         => /\ \A e \in EntriesOf(cache', last'.pattern) :
                  Found(cache', e.key, now) # "live"
            /\ last'.count = Cardinality(AllEntries(cache) \ AllEntries(cache'))]_vars

\* C27: a stopped sweep timer is never started again and a sweep runs only
\* while the timer is set, so after destroy() or stopCleanup() no sweep runs
\* on the store; clear() leaves the timer as it is and cleanupAllCaches()
\* leaves every named store's timer as it is; a set on a store without a
\* timer stores its entry, and from such a store a key disappears only in a
\* get of that key that finds it expired, in a set (eviction), in a delete
\* of that key, in a clear or in a destroy.
C27_SweepLifetime ==
    [][/\ ~cleanupTimer => ~cleanupTimer'
       /\ (Ran("destroy") \/ Ran("stopCleanup")) => ~cleanupTimer'
       /\ Ran("cleanup") => cleanupTimer
       /\ Ran("clear") => cleanupTimer' = cleanupTimer
       /\ Ran("cleanupAllCaches")
            => /\ cleanupTimer' = cleanupTimer
               /\ \A name \in RegistryNames :
                     registry'[name].cleanupTimer = registry[name].cleanupTimer
       /\ (~cleanupTimer /\ Ran("set"))
            => /\ MapHas(cache', last'.key)
               /\ MapGet(cache', last'.key).data = last'.ret
       /\ ~cleanupTimer
            => \A key \in StoredKeys(cache) \ StoredKeys(cache') :
                  \/ Ran("get") /\ last'.key = key /\ last'.found = "expired"
                  \/ Ran("set") /\ MapGet(cache, key) \in last'.evicted
                  \/ Ran("delete") /\ last'.key = key
                  \/ Ran("clear")
                  \/ Ran("destroy")]_vars

\* On a store built with a sweep timer that has since been stopped, a get
\* found an entry past its ttl and removed it.
C27_Witness ==
    /\ options.autoCleanup
    /\ ~cleanupTimer
    /\ last.op = "get"
    /\ last.found = "expired"
    /\ ~MapHas(cache, last.key)
    /\ \A name \in RegistryNames : registry[name].cleanupTimer

\* C28: when a withCache call is waiting for its handler and the operation
\* that ran last is a clear, a destroy, or a delete of the call's key, the
\* handler's result is still written to the store when it arrives: the store
\* then holds the result under the key again.
C28_WriteBackSurvivesClear ==
    [][(/\ Settled("withCache.resolve")
        /\ \/ last.op \in {"clear", "destroy"}
           \/ last.op = "delete" /\ last.key = last'.key)
         => /\ MapHas(cache', last'.key)
            /\ MapGet(cache', last'.key).data = last'.ret
            /\ MapGet(cache', last'.key).timestamp = now]_vars

\* The handler of a call was invoked and its result written to the store
\* after a clear, a delete or a destroy had run since the call started; the
\* store holds just that entry.
C28_Witness ==
    /\ last.op = "withCache.resolve"
    /\ last.invoked = 1
    /\ ~last.alone
    /\ Len(cache) = 1
    /\ cache[1].key = last.key
    /\ cache[1].data = last.ret

\* C29: every handler result that arrives is written over whatever the store
\* holds under the key, so of two calls in flight for one key the one whose
\* handler resolves last leaves the entry: its data is that result, and its
\* timestamp, lastAccessed and accessCount = 1 are those of that write; the
\* store holds at most one entry per key.
C29_LastCompletionWins ==
    [][Settled("withCache.resolve")
         => LET key == last'.key
                e   == MapGet(cache', key)
            IN  /\ MapHas(cache', key)
                /\ e.data = last'.ret
                /\ e.timestamp = now
                /\ e.lastAccessed = now
                /\ e.accessCount = 1
                /\ e.ttl = options.ttl
                /\ \A i, j \in 1..Len(cache') :
                      cache'[i].key = cache'[j].key => i = j]_vars

\* Both calls have resolved, the other call having started or resolved
\* while the call that resolved last was waiting for its handler; the store
\* holds the result that arrived last, written at the current clock value.
C29_Witness ==
    /\ last.op = "withCache.resolve"
    /\ last.invoked = 1
    /\ ~last.alone
    /\ \A c \in Calls : calls[c].status = "idle"
    /\ last.ret = "r1"
    /\ cache = << [key |-> last.key, data |-> "r1", timestamp |-> now,
                   ttl |-> options.ttl, accessCount |-> 1, lastAccessed |-> now] >>
    /\ now > 0

\* A step in which a list-recommendations request starts.
ListStarted ==
    /\ now' = now
    /\ last'.op \in {"listRecommendations.resolve", "listRecommendations.pending"}
    /\ calls[last'.call].status = "idle"

\* C30: a successful lifecycle update leaves every named store, the
\* recommendations store among them, as it was; and a list-recommendations
\* request that finds a live entry under its key (ten minutes not yet over
\* since it was stored) returns that entry's response without calling AWS,
\* whatever AWS holds by then.
C30_UpdateKeepsCachedList ==
    [][/\ Ran("updateRecommendationLifecycle")
            => /\ registry' = registry
               /\ aws' = last'.ret
       /\ (ListStarted
            /\ Found(registry["recommendations"].cache, last'.key, now) = "live")
            => /\ last'.op = "listRecommendations.resolve"
               /\ last'.invoked = 0
               /\ last'.ret = MapGet(registry["recommendations"].cache, last'.key).data
               /\ calls' = calls]_vars

\* A list request, made six minutes or more after the start, was answered
\* from the store without calling AWS, with a response that shows a stage
\* AWS no longer holds.
C30_Witness ==
    /\ last.op = "listRecommendations.resolve"
    /\ last.invoked = 0
    /\ last.ret \in LifecycleStages
    /\ last.ret # aws
    /\ now > 0

====
